---- MODULE Spec2Model ----
(***************************************************************************)
(* Model of cmd/stats.go: PerformanceStats, a channel-fed statistics       *)
(* collector.  Producers send latency and error events on two buffered     *)
(* channels without blocking; one goroutine (statsCollector) receives      *)
(* them and is the only writer of the counters, the histograms, the        *)
(* window archive and the per-second maps; query methods read that state;  *)
(* Close closes the done channel.                                          *)
(*                                                                         *)
(* Time is the wall clock in whole seconds.  A histogram is the function   *)
(* from each recordable value to the number of times it was recorded.      *)
(***************************************************************************)
EXTENDS Integers, Sequences, FiniteSets, TLC

\* ---------------------------------------------------------------- constants
\* const MetricWindowSizeSeconds = 5
MetricWindowSizeSeconds == 5

\* "if currentSecond - sec > 60" : the age beyond which a per-second entry
\* is deleted
RetainSeconds == 60

\* hdrhistogram.New(1, 60*1000*1000, 3): RecordValue returns an error, which
\* the collector ignores, for a value outside what the histogram can hold.
\* Scaled down: the values 1..HighestTrackableValue are recordable.
HighestTrackableValue == 1

\* ------------------------------------------------------------------- bounds
\* make(chan LatencyEvent, 1000000) and make(chan struct{}, 100), scaled down
LatencyCapacity == 2
ErrorCapacity == 1

\* number of RecordLatency and RecordError calls that are modelled
MaxCalls == 3

\* the seconds at which something happens: ClockSpan+1 consecutive seconds
\* from 0, from MetricWindowSizeSeconds and from RetainSeconds
ClockSpan == 1

\* how many seconds may pass between a producer's time.Now() and its send
MaxStampLag == 1

\* number of Close calls that are modelled
MaxCloseCalls == 2

ClockValues ==
    (0 .. ClockSpan)
        \cup (MetricWindowSizeSeconds .. (MetricWindowSizeSeconds + ClockSpan))
        \cup (RetainSeconds .. (RetainSeconds + ClockSpan))

\* the seconds at which NewPerformanceStats may run
InitTimes == {0, MetricWindowSizeSeconds}

\* latencies passed to RecordLatency: recordable ones and one that is not
LatencyValues == 1 .. (HighestTrackableValue + 1)

\* the percentiles asked of GetLastSecondPercentile
Percentiles == {50, 99}

VARIABLES
    now,                        \* time.Now().Unix()
    TotalOps, SuccessOps, FailedOps,
    Histogram,
    StartTime,
    latencyChannel,             \* buffered channel of LatencyEvent
    errorChannel,               \* buffered channel of struct{}
    done,                       \* TRUE when the done channel is closed
    currentWindowStartSecond,
    currentHistogram,
    windowedHistograms,         \* map[int64]*Histogram
    perSecondOps,               \* map[int64]int64
    perSecondErrors,            \* map[int64]int64
    lastSecond,
    currentSecondOps,
    currentSecondErrors,
    pc,                         \* where statsCollector stands
    event,                      \* the LatencyEvent statsCollector received
    fault,                      \* TRUE after the panic of a second Close
    fatal,                      \* TRUE after the runtime's fatal error on a map
                                \* that is read while it is written
    ret,                        \* what a query method has just returned
    latencyCalls, errorCalls,   \* history: record calls made
    latencyDrops, errorDrops,   \* history: events dropped on a full channel
    procOps, procErrors,        \* history: events processed, per second
    archivedAtRoll,             \* history: the key the last window roll archived
                                \* the old window under, -1 if it archived nothing
    closeCalls                  \* history: calls of Close

aggregate == <<TotalOps, SuccessOps, FailedOps, Histogram, currentWindowStartSecond,
               currentHistogram, windowedHistograms, perSecondOps, perSecondErrors,
               lastSecond, currentSecondOps, currentSecondErrors>>

channels == <<latencyChannel, errorChannel>>

history == <<latencyCalls, errorCalls, latencyDrops, errorDrops, procOps, procErrors,
             archivedAtRoll, closeCalls>>

vars == <<now, StartTime, aggregate, channels, done, pc, event, fault, fatal, ret,
          history>>

\* ---------------------------------------------------------------- histogram
Recordable == 1 .. HighestTrackableValue

\* hdrhistogram.New(1, 60*1000*1000, 3)
NewHistogram == [v \in Recordable |-> 0]

RECURSIVE CountUpTo(_, _)
\* number of recorded values that are <= v
CountUpTo(h, v) == IF v < 1 THEN 0 ELSE h[v] + CountUpTo(h, v - 1)

TotalCount(h) == CountUpTo(h, HighestTrackableValue)

\* h.RecordValue(v) with the returned error ignored: a value the histogram
\* cannot hold is not recorded
RecordValue(h, v) ==
    IF v \in Recordable THEN [h EXCEPT ![v] = @ + 1] ELSE h

\* h.ValueAtQuantile(q): the first value at which the running count reaches
\* int64(q/100 * totalCount + 0.5); 0 for a histogram that holds nothing
ValueAtQuantile(h, q) ==
    LET countAtPercentile == ((2 * q * TotalCount(h)) + 100) \div 200
        reached == {v \in Recordable : CountUpTo(h, v) >= countAtPercentile}
    IN  IF reached = {} \/ TotalCount(h) = 0 THEN 0
        ELSE CHOOSE v \in reached : \A w \in reached : v <= w

\* h.Max()
HistMax(h) ==
    LET present == {v \in Recordable : h[v] > 0}
    IN  IF present = {} THEN 0
        ELSE CHOOSE v \in present : \A w \in present : w <= v

\* --------------------------------------------------------------------- maps
\* m[k] = v
MapPut(m, k, v) == [s \in (DOMAIN m) \cup {k} |-> IF s = k THEN v ELSE m[s]]

\* delete(m, k) for every k in ks
MapDelete(m, ks) == [s \in (DOMAIN m) \ ks |-> m[s]]

EmptyMap == [s \in {} |-> 0]

NoEvent == [LatencyMicros |-> 0, Timestamp |-> 0]

NoRet == [op |-> "none", val |-> <<>>]

\* ----------------------------------------------------------------- creation
\* NewPerformanceStats
Init ==
    /\ now \in InitTimes
    /\ StartTime = now
    /\ TotalOps = 0 /\ SuccessOps = 0 /\ FailedOps = 0
    /\ Histogram = NewHistogram
    /\ windowedHistograms = EmptyMap
    /\ currentHistogram = NewHistogram
    /\ currentWindowStartSecond = 0
    /\ latencyChannel = <<>>
    /\ errorChannel = <<>>
    /\ done = FALSE
    /\ perSecondOps = EmptyMap
    /\ perSecondErrors = EmptyMap
    /\ lastSecond = now
    /\ currentSecondOps = 0
    /\ currentSecondErrors = 0
    /\ pc = "select"
    /\ event = NoEvent
    /\ fault = FALSE
    /\ fatal = FALSE
    /\ ret = NoRet
    /\ latencyCalls = 0 /\ errorCalls = 0
    /\ latencyDrops = 0 /\ errorDrops = 0
    /\ procOps = [s \in ClockValues |-> 0]
    /\ procErrors = [s \in ClockValues |-> 0]
    /\ archivedAtRoll = -1
    /\ closeCalls = 0

\* -------------------------------------------------------------------- clock
\* the wall clock moves on to a later second
Tick ==
    /\ ~fault /\ ~fatal
    /\ \E t \in ClockValues : t > now /\ now' = t
    /\ ret' = NoRet
    /\ UNCHANGED <<StartTime, aggregate, channels, done, pc, event, fault, fatal, history>>

\* ---------------------------------------------------------------- producers
\* a RecordLatency that sends even when the channel is full
RecordLatencyUnbounded(latencyMicros, stamp) ==
    /\ ~fault /\ ~fatal
    /\ latencyCalls + errorCalls < MaxCalls
    /\ latencyCalls' = latencyCalls + 1
    /\ latencyChannel' = Append(latencyChannel,
            [LatencyMicros |-> latencyMicros, Timestamp |-> stamp])
    /\ ret' = NoRet
    /\ UNCHANGED <<now, StartTime, aggregate, errorChannel, done, pc, event, fault, fatal,
                   errorCalls, latencyDrops, errorDrops, procOps, procErrors,
                   archivedAtRoll, closeCalls>>

\* RecordLatency(latencyMicros): the event carries the time.Now() the
\* producer read at `stamp`, the select sends it or, on a full channel, drops
\* it
RecordLatency(latencyMicros, stamp) ==
    /\ ~fault /\ ~fatal
    /\ latencyCalls + errorCalls < MaxCalls
    /\ latencyCalls' = latencyCalls + 1
    /\ IF Len(latencyChannel) < LatencyCapacity
       THEN /\ latencyChannel' = Append(latencyChannel,
                    [LatencyMicros |-> latencyMicros, Timestamp |-> stamp])
            /\ UNCHANGED latencyDrops
       ELSE /\ latencyDrops' = latencyDrops + 1
            /\ UNCHANGED latencyChannel
    /\ ret' = NoRet
    /\ UNCHANGED <<now, StartTime, aggregate, errorChannel, done, pc, event, fault, fatal,
                   errorCalls, errorDrops, procOps, procErrors, archivedAtRoll, closeCalls>>

\* the seconds a producer that sends now may have read from the clock
Stamps == {t \in ClockValues : StartTime <= t /\ t <= now /\ now - t <= MaxStampLag}

\* a RecordError that counts the failure itself as well
RecordErrorCounting ==
    /\ ~fault /\ ~fatal
    /\ latencyCalls + errorCalls < MaxCalls
    /\ errorCalls' = errorCalls + 1
    /\ IF Len(errorChannel) < ErrorCapacity
       THEN /\ errorChannel' = Append(errorChannel, "struct{}")
            /\ UNCHANGED errorDrops
       ELSE /\ errorDrops' = errorDrops + 1
            /\ UNCHANGED errorChannel
    /\ FailedOps' = FailedOps + 1
    /\ ret' = NoRet
    /\ UNCHANGED <<now, StartTime, TotalOps, SuccessOps, Histogram, currentWindowStartSecond,
                   currentHistogram, windowedHistograms, perSecondOps, perSecondErrors,
                   lastSecond, currentSecondOps, currentSecondErrors, latencyChannel, done,
                   pc, event, fault, fatal, latencyCalls, latencyDrops, procOps, procErrors,
                   archivedAtRoll, closeCalls>>

\* RecordError()
RecordError ==
    /\ ~fault /\ ~fatal
    /\ latencyCalls + errorCalls < MaxCalls
    /\ errorCalls' = errorCalls + 1
    /\ IF Len(errorChannel) < ErrorCapacity
       THEN /\ errorChannel' = Append(errorChannel, "struct{}")
            /\ UNCHANGED errorDrops
       ELSE /\ errorDrops' = errorDrops + 1
            /\ UNCHANGED errorChannel
    /\ ret' = NoRet
    /\ UNCHANGED <<now, StartTime, aggregate, latencyChannel, done, pc, event, fault, fatal,
                   latencyCalls, latencyDrops, procOps, procErrors, archivedAtRoll,
                   closeCalls>>

\* ----------------------------------------------------------- statsCollector
\* a receive that takes the event sent last
ReceiveLatencyLifo ==
    /\ ~fault /\ ~fatal
    /\ pc = "select"
    /\ latencyChannel # <<>>
    /\ event' = latencyChannel[Len(latencyChannel)]
    /\ latencyChannel' = SubSeq(latencyChannel, 1, Len(latencyChannel) - 1)
    /\ pc' = "latency"
    /\ ret' = NoRet
    /\ UNCHANGED <<now, StartTime, aggregate, errorChannel, done, fault, fatal, history>>

\* case event := <-ps.latencyChannel
ReceiveLatency ==
    /\ ~fault /\ ~fatal
    /\ pc = "select"
    /\ latencyChannel # <<>>
    /\ event' = Head(latencyChannel)
    /\ latencyChannel' = Tail(latencyChannel)
    /\ pc' = "latency"
    /\ ret' = NoRet
    /\ UNCHANGED <<now, StartTime, aggregate, errorChannel, done, fault, fatal, history>>

\* the per-second maps after "if currentSecond != ps.lastSecond { save }"
SavedOps(currentSecond) ==
    IF currentSecond # lastSecond /\ (currentSecondOps > 0 \/ currentSecondErrors > 0)
    THEN MapPut(perSecondOps, lastSecond, currentSecondOps)
    ELSE perSecondOps

SavedErrors(currentSecond) ==
    IF currentSecond # lastSecond /\ (currentSecondOps > 0 \/ currentSecondErrors > 0)
    THEN MapPut(perSecondErrors, lastSecond, currentSecondErrors)
    ELSE perSecondErrors

\* "for sec := range ps.perSecondOps { if currentSecond - sec > 60 {...} }"
Expired(m, currentSecond) == {sec \in DOMAIN m : currentSecond - sec > RetainSeconds}

\* a latency case that empties the window's histogram in place at a roll,
\* where the code makes a new one: the archive then holds the very histogram
\* that goes on being recorded into
ProcessLatencyResetInPlace ==
    /\ ~fault /\ ~fatal
    /\ pc = "latency"
    /\ LET currentSecond == event.Timestamp
           roll == currentSecond - currentWindowStartSecond >= MetricWindowSizeSeconds
       IN
       /\ IF currentSecond # lastSecond
          THEN /\ perSecondOps' = MapDelete(SavedOps(currentSecond),
                                     Expired(SavedOps(currentSecond), currentSecond))
               /\ perSecondErrors' = MapDelete(SavedErrors(currentSecond),
                                     Expired(SavedOps(currentSecond), currentSecond))
               /\ lastSecond' = currentSecond
               /\ currentSecondOps' = 1
               /\ currentSecondErrors' = 0
          ELSE /\ currentSecondOps' = currentSecondOps + 1
               /\ UNCHANGED <<perSecondOps, perSecondErrors, lastSecond, currentSecondErrors>>
       /\ Histogram' = RecordValue(Histogram, event.LatencyMicros)
       /\ IF roll
          THEN /\ windowedHistograms' =
                     IF TotalCount(currentHistogram) > 0
                     THEN MapPut(windowedHistograms, currentWindowStartSecond,
                                 RecordValue(NewHistogram, event.LatencyMicros))
                     ELSE windowedHistograms
               /\ currentWindowStartSecond' = currentSecond
               /\ currentHistogram' = RecordValue(NewHistogram, event.LatencyMicros)
               /\ archivedAtRoll' = IF TotalCount(currentHistogram) > 0
                                    THEN currentWindowStartSecond ELSE -1
          ELSE /\ currentHistogram' = RecordValue(currentHistogram, event.LatencyMicros)
               /\ UNCHANGED <<windowedHistograms, currentWindowStartSecond, archivedAtRoll>>
       /\ procOps' = [procOps EXCEPT ![currentSecond] = @ + 1]
    /\ SuccessOps' = SuccessOps + 1
    /\ event' = NoEvent
    /\ pc' = "total"
    /\ ret' = NoRet
    /\ UNCHANGED <<now, StartTime, TotalOps, FailedOps, channels, done, fault, fatal,
                   latencyCalls, errorCalls, latencyDrops, errorDrops, procErrors,
                   closeCalls>>

\* the body of the latency case up to SuccessOps++
ProcessLatency ==
    /\ ~fault /\ ~fatal
    /\ pc = "latency"
    /\ LET currentSecond == event.Timestamp
           roll == currentSecond - currentWindowStartSecond >= MetricWindowSizeSeconds
       IN
       /\ IF currentSecond # lastSecond
          THEN /\ perSecondOps' = MapDelete(SavedOps(currentSecond),
                                     Expired(SavedOps(currentSecond), currentSecond))
               /\ perSecondErrors' = MapDelete(SavedErrors(currentSecond),
                                     Expired(SavedOps(currentSecond), currentSecond))
               /\ lastSecond' = currentSecond
               /\ currentSecondOps' = 1
               /\ currentSecondErrors' = 0
          ELSE /\ currentSecondOps' = currentSecondOps + 1
               /\ UNCHANGED <<perSecondOps, perSecondErrors, lastSecond, currentSecondErrors>>
       /\ Histogram' = RecordValue(Histogram, event.LatencyMicros)
       /\ IF roll
          THEN /\ windowedHistograms' =
                     IF TotalCount(currentHistogram) > 0
                     THEN MapPut(windowedHistograms, currentWindowStartSecond, currentHistogram)
                     ELSE windowedHistograms
               /\ currentWindowStartSecond' = currentSecond
               /\ currentHistogram' = RecordValue(NewHistogram, event.LatencyMicros)
               /\ archivedAtRoll' = IF TotalCount(currentHistogram) > 0
                                    THEN currentWindowStartSecond ELSE -1
          ELSE /\ currentHistogram' = RecordValue(currentHistogram, event.LatencyMicros)
               /\ UNCHANGED <<windowedHistograms, currentWindowStartSecond, archivedAtRoll>>
       /\ procOps' = [procOps EXCEPT ![currentSecond] = @ + 1]
    /\ SuccessOps' = SuccessOps + 1
    /\ event' = NoEvent
    /\ pc' = "total"
    /\ ret' = NoRet
    /\ UNCHANGED <<now, StartTime, TotalOps, FailedOps, channels, done, fault, fatal,
                   latencyCalls, errorCalls, latencyDrops, errorDrops, procErrors,
                   closeCalls>>

\* a receive that takes the failure event and goes back to the select
\* without counting it
ReceiveErrorDiscard ==
    /\ ~fault /\ ~fatal
    /\ pc = "select"
    /\ errorChannel # <<>>
    /\ errorChannel' = Tail(errorChannel)
    /\ pc' = "select"
    /\ ret' = NoRet
    /\ UNCHANGED <<now, StartTime, aggregate, latencyChannel, done, event, fault, fatal,
                   history>>

\* case <-ps.errorChannel
ReceiveError ==
    /\ ~fault /\ ~fatal
    /\ pc = "select"
    /\ errorChannel # <<>>
    /\ errorChannel' = Tail(errorChannel)
    /\ pc' = "error"
    /\ ret' = NoRet
    /\ UNCHANGED <<now, StartTime, aggregate, latencyChannel, done, event, fault, fatal, history>>

\* the body of the error case up to FailedOps++; currentSecond is the clock
\* read after the receive
ProcessError ==
    /\ ~fault /\ ~fatal
    /\ pc = "error"
    /\ LET currentSecond == now
       IN
       /\ IF currentSecond # lastSecond
          THEN /\ perSecondOps' = SavedOps(currentSecond)
               /\ perSecondErrors' = SavedErrors(currentSecond)
               /\ lastSecond' = currentSecond
               /\ currentSecondOps' = 0
               /\ currentSecondErrors' = 1
          ELSE /\ currentSecondErrors' = currentSecondErrors + 1
               /\ UNCHANGED <<perSecondOps, perSecondErrors, lastSecond, currentSecondOps>>
       /\ procErrors' = [procErrors EXCEPT ![currentSecond] = @ + 1]
    /\ FailedOps' = FailedOps + 1
    /\ pc' = "total"
    /\ ret' = NoRet
    /\ UNCHANGED <<now, StartTime, TotalOps, SuccessOps, Histogram, currentWindowStartSecond,
                   currentHistogram, windowedHistograms, channels, done, event, fault, fatal,
                   latencyCalls, errorCalls, latencyDrops, errorDrops, procOps,
                   archivedAtRoll, closeCalls>>

\* a collector that forgets ps.TotalOps++
CountTotalForgotten ==
    /\ ~fault /\ ~fatal
    /\ pc = "total"
    /\ pc' = "select"
    /\ ret' = NoRet
    /\ UNCHANGED <<now, StartTime, aggregate, channels, done, event, fault, fatal, history>>

\* a collector that counts the event twice in TotalOps
CountTotalTwice ==
    /\ ~fault /\ ~fatal
    /\ pc = "total"
    /\ TotalOps' = TotalOps + 2
    /\ pc' = "select"
    /\ ret' = NoRet
    /\ UNCHANGED <<now, StartTime, SuccessOps, FailedOps, Histogram, currentWindowStartSecond,
                   currentHistogram, windowedHistograms, perSecondOps, perSecondErrors,
                   lastSecond, currentSecondOps, currentSecondErrors, channels, done, event,
                   fault, fatal, history>>

\* ps.TotalOps++, the last statement of both cases
CountTotal ==
    /\ ~fault /\ ~fatal
    /\ pc = "total"
    /\ TotalOps' = TotalOps + 1
    /\ pc' = "select"
    /\ ret' = NoRet
    /\ UNCHANGED <<now, StartTime, SuccessOps, FailedOps, Histogram, currentWindowStartSecond,
                   currentHistogram, windowedHistograms, perSecondOps, perSecondErrors,
                   lastSecond, currentSecondOps, currentSecondErrors, channels, done, event,
                   fault, fatal, history>>

\* a done case that saves the running second before it returns
CollectorDoneFlush ==
    /\ ~fault /\ ~fatal
    /\ pc = "select"
    /\ done
    /\ pc' = "exited"
    /\ perSecondOps' = MapPut(perSecondOps, lastSecond, currentSecondOps)
    /\ perSecondErrors' = MapPut(perSecondErrors, lastSecond, currentSecondErrors)
    /\ ret' = NoRet
    /\ UNCHANGED <<now, StartTime, TotalOps, SuccessOps, FailedOps, Histogram,
                   currentWindowStartSecond, currentHistogram, windowedHistograms,
                   lastSecond, currentSecondOps, currentSecondErrors, channels, done,
                   event, fault, fatal, history>>

\* a done case that says break, which leaves the select and not the loop
CollectorDoneBreak ==
    /\ ~fault /\ ~fatal
    /\ pc = "select"
    /\ done
    /\ pc' = "select"
    /\ ret' = NoRet
    /\ UNCHANGED <<now, StartTime, aggregate, channels, done, event, fault, fatal, history>>

\* case <-ps.done: return
CollectorDone ==
    /\ ~fault /\ ~fatal
    /\ pc = "select"
    /\ done
    /\ pc' = "exited"
    /\ ret' = NoRet
    /\ UNCHANGED <<now, StartTime, aggregate, channels, done, event, fault, fatal, history>>

\* -------------------------------------------------------------------- Close
\* a Close that does nothing when the channel is closed already
CloseIdempotent ==
    /\ ~fault /\ ~fatal
    /\ closeCalls < MaxCloseCalls
    /\ closeCalls' = closeCalls + 1
    /\ done' = TRUE
    /\ ret' = NoRet
    /\ UNCHANGED <<now, StartTime, aggregate, channels, pc, event, fault, fatal, latencyCalls,
                   errorCalls, latencyDrops, errorDrops, procOps, procErrors,
                   archivedAtRoll>>

\* close(ps.done); closing a closed channel panics
Close ==
    /\ ~fault /\ ~fatal
    /\ closeCalls < MaxCloseCalls
    /\ closeCalls' = closeCalls + 1
    /\ IF done
       THEN fault' = TRUE /\ UNCHANGED done
       ELSE done' = TRUE /\ UNCHANGED fault
    /\ ret' = NoRet
    /\ UNCHANGED <<now, StartTime, aggregate, channels, pc, event, fatal, latencyCalls,
                   errorCalls, latencyDrops, errorDrops, procOps, procErrors,
                   archivedAtRoll>>

\* ------------------------------------------------------------------ queries
\* elapsed := time.Since(ps.StartTime).Seconds(); TotalOps / elapsed as the
\* fraction <<numerator, denominator>> in lowest terms, <<0, 1>> for 0
RECURSIVE Gcd(_, _)
Gcd(a, b) == IF b = 0 THEN a ELSE Gcd(b, a % b)

QPS ==
    LET elapsed == now - StartTime
    IN  IF elapsed = 0 \/ TotalOps = 0 THEN <<0, 1>>
        ELSE <<TotalOps \div Gcd(TotalOps, elapsed), elapsed \div Gcd(TotalOps, elapsed)>>

\* p50, p95, p99 of GetStats: 0 when the histogram is empty
OverallQuantile(q) ==
    IF TotalCount(Histogram) > 0 THEN ValueAtQuantile(Histogram, q) ELSE 0

\* (total, success, failed, qps, p50, p95, p99)
Stats ==
    <<TotalOps, SuccessOps, FailedOps, QPS,
      OverallQuantile(50), OverallQuantile(95), OverallQuantile(99)>>

\* (count, p50, p95, p99, max) of one histogram
WindowStats(h) ==
    <<TotalCount(h), ValueAtQuantile(h, 50), ValueAtQuantile(h, 95),
      ValueAtQuantile(h, 99), HistMax(h)>>

\* histToUse := ps.windowedHistograms[ps.currentWindowStartSecond-MetricWindowSizeSeconds]
PreviousWindowStats ==
    LET key == currentWindowStartSecond - MetricWindowSizeSeconds
    IN  IF key \notin DOMAIN windowedHistograms \/ TotalCount(windowedHistograms[key]) = 0
        THEN <<0, 0, 0, 0, 0>>
        ELSE WindowStats(windowedHistograms[key])

OverallStats == <<TotalOps, SuccessOps, FailedOps, QPS>>

\* a GetOpsLastSecond that answers -1 for a second it has no entry for
OpsLastSecondSentinel ==
    IF now - 1 \in DOMAIN perSecondOps THEN perSecondOps[now - 1] ELSE -1

OpsLastSecond ==
    IF now - 1 \in DOMAIN perSecondOps THEN perSecondOps[now - 1] ELSE 0

ErrorsLastSecond ==
    IF now - 1 \in DOMAIN perSecondErrors THEN perSecondErrors[now - 1] ELSE 0

LastSecondPercentile(percentile) ==
    IF now - 1 \in DOMAIN windowedHistograms /\ TotalCount(windowedHistograms[now - 1]) > 0
    THEN ValueAtQuantile(windowedHistograms[now - 1], percentile)
    ELSE IF TotalCount(currentHistogram) > 0
         THEN ValueAtQuantile(currentHistogram, percentile)
         ELSE 0

\* a query method returns val to its caller and changes nothing else
Returns(op, val) ==
    /\ ~fault /\ ~fatal
    /\ ret' = [op |-> op, val |-> val]
    /\ UNCHANGED <<now, StartTime, aggregate, channels, done, pc, event, fault, fatal, history>>

\* The query methods take no lock.  While the collector stands in the body of
\* a case, the statements of that body run at the same time as a query that
\* is called then, and nothing orders the two.  What the body is about to
\* write:
\* perSecondOps and perSecondErrors, by the stores of lines 80-81 and 123-124
\* and the deletes of lines 92-93
WritesPerSecond ==
    \/ /\ pc = "latency"
       /\ event.Timestamp # lastSecond
       /\ \/ currentSecondOps > 0
          \/ currentSecondErrors > 0
          \/ Expired(perSecondOps, event.Timestamp) # {}
    \/ /\ pc = "error"
       /\ now # lastSecond
       /\ (currentSecondOps > 0 \/ currentSecondErrors > 0)

\* windowedHistograms, by the store of line 105
WritesWindowedHistograms ==
    /\ pc = "latency"
    /\ event.Timestamp - currentWindowStartSecond >= MetricWindowSizeSeconds
    /\ TotalCount(currentHistogram) > 0

\* the overall histogram, by the RecordValue of line 100
WritesHistogram ==
    /\ pc = "latency"
    /\ event.LatencyMicros \in Recordable

\* the current window's histogram, replaced at line 108 and recorded into at
\* line 110
WritesCurrentHistogram ==
    /\ pc = "latency"
    /\ \/ event.Timestamp - currentWindowStartSecond >= MetricWindowSizeSeconds
       \/ event.LatencyMicros \in Recordable

\* A read of a Go map that meets a write of it is a data race.  The query
\* may return what it would have returned before or after the write (the
\* steps Returns before and after the body), or the runtime ends the program
\* with "fatal error: concurrent map read and map write", which is this step.
ConcurrentMapRead(writing) ==
    /\ ~fault /\ ~fatal
    /\ writing
    /\ fatal' = TRUE
    /\ ret' = NoRet
    /\ UNCHANGED <<now, StartTime, aggregate, channels, done, pc, event, fault, history>>

GetQPS == Returns("GetQPS", QPS)

\* a GetStats that starts the histogram afresh once it has read it
GetStatsAndReset ==
    /\ ~fault /\ ~fatal
    /\ ret' = [op |-> "GetStats", val |-> Stats]
    /\ Histogram' = NewHistogram
    /\ UNCHANGED <<now, StartTime, TotalOps, SuccessOps, FailedOps,
                   currentWindowStartSecond, currentHistogram, windowedHistograms,
                   perSecondOps, perSecondErrors, lastSecond, currentSecondOps,
                   currentSecondErrors, channels, done, pc, event, fault, fatal, history>>

GetStats == Returns("GetStats", Stats)

GetPreviousWindowStats ==
    \/ Returns("GetPreviousWindowStats", PreviousWindowStats)
    \/ ConcurrentMapRead(WritesWindowedHistograms)

GetOverallStats == Returns("GetOverallStats", OverallStats)

GetOpsLastSecond ==
    \/ Returns("GetOpsLastSecond", OpsLastSecond)
    \/ ConcurrentMapRead(WritesPerSecond)

GetErrorsLastSecond ==
    \/ Returns("GetErrorsLastSecond", ErrorsLastSecond)
    \/ ConcurrentMapRead(WritesPerSecond)

GetLastSecondPercentile(percentile) ==
    \/ Returns("GetLastSecondPercentile", LastSecondPercentile(percentile))
    \/ ConcurrentMapRead(WritesWindowedHistograms)

Next ==
    \/ GetQPS
    \/ GetStats
    \/ GetPreviousWindowStats
    \/ GetOverallStats
    \/ GetOpsLastSecond
    \/ GetErrorsLastSecond
    \/ \E p \in Percentiles : GetLastSecondPercentile(p)
    \/ Tick
    \/ \E v \in LatencyValues, t \in Stamps : RecordLatency(v, t)
    \/ RecordError
    \/ ReceiveLatency
    \/ ProcessLatency
    \/ ReceiveError
    \/ ProcessError
    \/ CountTotal
    \/ CollectorDone
    \/ Close

Spec == Init /\ [][Next]_vars

\* the collector's own steps
Collector == ReceiveLatency \/ ProcessLatency \/ ReceiveError \/ ProcessError \/ CountTotal

\* the program without its query methods, which change nothing
NextProgram ==
    \/ Tick
    \/ \E v \in LatencyValues, t \in Stamps : RecordLatency(v, t)
    \/ RecordError
    \/ Collector
    \/ CollectorDone
    \/ Close

\* The collector goroutine keeps running, and a select whose done case is
\* ready again and again takes it in the end: Go chooses among the ready
\* cases of a select uniformly at random.
LiveSpec ==
    Init /\ [][NextProgram]_vars /\ WF_vars(Collector) /\ SF_vars(CollectorDone)

\* ------------------------------------------------------------------- claims
\* both mailboxes are empty and the collector is between events
Drained == latencyChannel = <<>> /\ errorChannel = <<>> /\ pc = "select"

\* every event enqueued so far has been processed
AllProcessed ==
    latencyChannel = <<>> /\ errorChannel = <<>> /\ pc \in {"select", "exited"}

\* the number of events the collector attributed to second s
Attributed(proc, s) == IF s \in ClockValues THEN proc[s] ELSE 0

\* C1: when no event was dropped, Close was not called and the collector has
\* drained both mailboxes, TotalOps is the number of record calls, SuccessOps
\* the number of RecordLatency calls and FailedOps the number of RecordError
\* calls.
C1_CountersAfterDrain ==
    (Drained /\ ~done /\ latencyDrops = 0 /\ errorDrops = 0)
        => /\ TotalOps = latencyCalls + errorCalls
           /\ SuccessOps = latencyCalls
           /\ FailedOps = errorCalls

C1_Witness ==
    /\ Drained /\ ~done
    /\ latencyDrops = 0 /\ errorDrops = 0
    /\ latencyCalls = 2 /\ errorCalls = 1
    /\ TotalOps = 3

\* C2: a record call is one step that is possible in every state, whether the
\* mailbox is full, the collector is busy or has returned: below capacity it
\* appends the event, at capacity it drops the event and leaves the mailbox
\* as it was; no mailbox ever holds more than its capacity.
C2_NonBlockingBoundedMailbox ==
    /\ [](/\ Len(latencyChannel) <= LatencyCapacity
          /\ Len(errorChannel) <= ErrorCapacity)
    /\ []((~fault /\ ~fatal /\ latencyCalls + errorCalls < MaxCalls)
            => /\ ENABLED RecordError
               /\ ENABLED (\E v \in LatencyValues, t \in Stamps : RecordLatency(v, t)))
    /\ [][/\ latencyCalls' = latencyCalls + 1
             => /\ UNCHANGED <<aggregate, errorChannel, pc, done>>
                /\ IF Len(latencyChannel) < LatencyCapacity
                   THEN /\ Len(latencyChannel') = Len(latencyChannel) + 1
                        /\ SubSeq(latencyChannel', 1, Len(latencyChannel)) = latencyChannel
                        /\ latencyDrops' = latencyDrops
                   ELSE /\ latencyChannel' = latencyChannel
                        /\ latencyDrops' = latencyDrops + 1
          /\ errorCalls' = errorCalls + 1
             => /\ UNCHANGED <<aggregate, latencyChannel, pc, done>>
                /\ IF Len(errorChannel) < ErrorCapacity
                   THEN /\ Len(errorChannel') = Len(errorChannel) + 1
                        /\ errorDrops' = errorDrops
                   ELSE /\ errorChannel' = errorChannel
                        /\ errorDrops' = errorDrops + 1]_vars

\* an event was dropped on the full latency mailbox of a collector that has
\* returned
C2_Witness ==
    /\ latencyDrops = 1
    /\ Len(latencyChannel) = LatencyCapacity
    /\ pc = "exited"

\* C3: once the collector has processed an event, success or failure, whose
\* second is s+61 or later, neither per-second map has an entry for s.
C3_RollingEviction ==
    \A s \in ClockValues :
        (\E t \in ClockValues :
            /\ t >= s + RetainSeconds + 1
            /\ procOps[t] + procErrors[t] > 0)
        => /\ s \notin DOMAIN perSecondOps
           /\ s \notin DOMAIN perSecondErrors

\* C4: when the collector processes a success event of second t with
\* t - currentWindowStartSecond >= 5 and n >= 1 values in the current window,
\* that window is archived under its start second with count n, and the
\* current window becomes a fresh one that starts at t and holds the event's
\* value and nothing else.
C4_WindowArchiveBoundary ==
    [][(/\ pc = "latency" /\ pc' = "total"
        /\ event.Timestamp - currentWindowStartSecond >= MetricWindowSizeSeconds
        /\ TotalCount(currentHistogram) >= 1)
       => /\ currentWindowStartSecond \in DOMAIN windowedHistograms'
          /\ windowedHistograms'[currentWindowStartSecond] = currentHistogram
          /\ currentWindowStartSecond' = event.Timestamp
          /\ TotalCount(currentHistogram') = 1
          /\ event.LatencyMicros \in Recordable
          /\ currentHistogram'[event.LatencyMicros] = 1]_vars

\* C5: after a window roll that archived a window of n >= 1 values, and until
\* the next roll, GetPreviousWindowStats returns that window's count, p50,
\* p95, p99 and max, however far apart the two windows start; it returns
\* zeros only when the last roll archived nothing.
C5_PreviousWindow ==
    ret.op = "GetPreviousWindowStats"
        => /\ archivedAtRoll # -1
                => ret.val = WindowStats(windowedHistograms[archivedAtRoll])
           /\ ret.val = <<0, 0, 0, 0, 0>> => archivedAtRoll = -1

\* C6: with every enqueued event processed, GetOpsLastSecond and
\* GetErrorsLastSecond called in second n return the number of success
\* events and of failure events the collector attributed to second n-1.
C6_LastCompletedSecond ==
    AllProcessed
        => /\ ret.op = "GetOpsLastSecond" => ret.val = Attributed(procOps, now - 1)
           /\ ret.op = "GetErrorsLastSecond" => ret.val = Attributed(procErrors, now - 1)

\* (total, success, failed, p50, p95, p99): Stats without the throughput
StatsWithoutQPS ==
    <<TotalOps, SuccessOps, FailedOps,
      OverallQuantile(50), OverallQuantile(95), OverallQuantile(99)>>

\* a step that leaves the state drained, with no record call made
StaysDrained ==
    /\ AllProcessed /\ AllProcessed'
    /\ latencyCalls' = latencyCalls /\ errorCalls' = errorCalls

\* C7 as claimed: on a drained state with no new record calls, what
\* GetStats returns is the same tuple however much time passes between two
\* calls.
C7_SnapshotIdempotent == [][StaysDrained => Stats' = Stats]_vars

\* C7 as amended: on a drained state with no new record calls, GetStats
\* returns the same total, success, failed, p50, p95 and p99 however much time
\* passes, and the same throughput at the same clock time.
C7_SnapshotIdempotentButQPS ==
    [][StaysDrained => /\ StatsWithoutQPS' = StatsWithoutQPS
                       /\ now' = now => QPS' = QPS]_vars

\* GetStats has just returned on a drained state with three events counted,
\* a minute after the start
C7_Witness ==
    /\ ret.op = "GetStats"
    /\ AllProcessed
    /\ TotalOps = 3
    /\ now - StartTime >= RetainSeconds
    /\ ret.val[4] # <<0, 1>>

\* C8 as claimed: from the moment Close has been called the aggregate state
\* never changes again.
C8_NoMutationAfterClose == [][done => UNCHANGED aggregate]_vars

\* C8 as amended: from the moment the collector takes the done case the
\* aggregate state never changes again, the collector stays out of its loop,
\* and no event is taken from a mailbox: the events in the mailboxes then,
\* and those recorded later, are never applied.
C8_NoMutationAfterExit ==
    [][pc' = "exited"
       => /\ UNCHANGED aggregate
          /\ pc = "exited" => Len(latencyChannel') >= Len(latencyChannel)
          /\ pc = "exited" => Len(errorChannel') >= Len(errorChannel)]_vars
    /\ [][pc = "exited" => pc' = "exited"]_vars

\* the collector has returned with one event counted and an event left in
\* each mailbox
C8_Witness ==
    /\ pc = "exited"
    /\ TotalOps = 1
    /\ latencyChannel # <<>>
    /\ errorChannel # <<>>

C10_CloseOneShot ==
    /\ [](/\ closeCalls = 0 => ~done /\ ~fault
          /\ closeCalls = 1 => done /\ ~fault
          /\ closeCalls >= 2 => done /\ fault)
    /\ [][closeCalls' # closeCalls => UNCHANGED <<aggregate, channels, pc>>]_vars

\* the second Close has panicked on a collector that counted an event
C10_Witness ==
    /\ fault
    /\ closeCalls = 2
    /\ TotalOps >= 1

\* C11: each mailbox is first in, first out: a record call appends its event
\* behind the events that wait, the collector takes the event at the front,
\* processes that very event before it takes another, and no other step
\* changes a mailbox; between the mailboxes there is no order: with an event
\* waiting in each, the collector may take either.
C11_FifoPerMailbox ==
    /\ [][/\ Len(latencyChannel') > Len(latencyChannel)
             => /\ latencyCalls' = latencyCalls + 1
                /\ Len(latencyChannel') = Len(latencyChannel) + 1
                /\ SubSeq(latencyChannel', 1, Len(latencyChannel)) = latencyChannel
          /\ Len(latencyChannel') < Len(latencyChannel)
             => /\ pc = "select" /\ pc' = "latency"
                /\ event' = Head(latencyChannel)
                /\ latencyChannel' = Tail(latencyChannel)
          /\ Len(latencyChannel') = Len(latencyChannel)
             => latencyChannel' = latencyChannel
          /\ Len(errorChannel') > Len(errorChannel)
             => /\ errorCalls' = errorCalls + 1
                /\ errorChannel' = Append(errorChannel, "struct{}")
          /\ Len(errorChannel') < Len(errorChannel)
             => /\ pc = "select" /\ pc' = "error"
                /\ errorChannel' = Tail(errorChannel)
          /\ (pc = "latency" /\ pc' # pc)
             => /\ pc' = "total"
                /\ procOps' = [procOps EXCEPT ![event.Timestamp] = @ + 1]
                /\ UNCHANGED channels
          /\ (pc = "error" /\ pc' # pc)
             => /\ pc' = "total"
                /\ UNCHANGED channels]_vars
    /\ []((pc = "select" /\ ~fault /\ ~fatal /\ latencyChannel # <<>>
            /\ errorChannel # <<>>)
            => ENABLED ReceiveLatency /\ ENABLED ReceiveError)

\* the collector holds the success event sent first while the one sent
\* second, which differs from it, and a failure event wait
C11_Witness ==
    /\ pc = "latency"
    /\ event.LatencyMicros = 1
    /\ Len(latencyChannel) = 1
    /\ latencyChannel[1].LatencyMicros = 2
    /\ latencyChannel[1].Timestamp > event.Timestamp
    /\ errorChannel # <<>>

\* C12: no query reads a per-second map, the window archive or a histogram
\* while the collector is in a body that writes that same structure, and the
\* runtime never ends the program for a map read that met a map write.
C12_NoReadOverlapsWrite ==
    [][/\ ret'.op \in {"GetOpsLastSecond", "GetErrorsLastSecond"} => ~WritesPerSecond
       /\ ret'.op = "GetPreviousWindowStats" => ~WritesWindowedHistograms
       /\ ret'.op = "GetLastSecondPercentile"
            => ~WritesWindowedHistograms /\ ~WritesCurrentHistogram
       /\ ret'.op = "GetStats" => ~WritesHistogram
       /\ ~fatal']_vars

\* C13: the aggregate state changes only in a step of the collector that
\* processes an event it holds; a RecordLatency changes nothing of the
\* program's state but latencyChannel, a RecordError nothing but
\* errorChannel, and a query that returns leaves the aggregate state and both
\* mailboxes as they were.
C13_SingleWriter ==
    [][/\ aggregate' # aggregate
            => pc \in {"latency", "error", "total"} /\ pc' # pc
       /\ latencyCalls' # latencyCalls
            => UNCHANGED <<aggregate, StartTime, errorChannel, done, pc, event>>
       /\ errorCalls' # errorCalls
            => UNCHANGED <<aggregate, StartTime, latencyChannel, done, pc, event>>
       /\ ret'.op # "none"
            => UNCHANGED <<aggregate, StartTime, channels, done, pc, event>>]_vars

\* a query has returned on a collector that has counted an event and holds
\* another, with a failure event waiting
C13_Witness ==
    /\ ret.op = "GetPreviousWindowStats"
    /\ TotalOps >= 1
    /\ pc = "latency"
    /\ errorChannel # <<>>

\* C14: TotalOps, SuccessOps and FailedOps never decrease; TotalOps equals
\* SuccessOps + FailedOps whenever the collector is between events; in every
\* state, the ones a reader sees while an event is being counted included,
\* SuccessOps + FailedOps is TotalOps or TotalOps + 1.
C14_CounterInvariant ==
    /\ [](pc \in {"select", "exited"} => TotalOps = SuccessOps + FailedOps)
    /\ [](/\ TotalOps <= SuccessOps + FailedOps
          /\ SuccessOps + FailedOps <= TotalOps + 1)
    /\ [][/\ TotalOps' >= TotalOps
          /\ SuccessOps' >= SuccessOps
          /\ FailedOps' >= FailedOps]_vars

\* GetOverallStats has returned counters read between FailedOps++ and
\* TotalOps++ of the second event
C14_Witness ==
    /\ ret.op = "GetOverallStats"
    /\ pc = "total"
    /\ ret.val[1] = 1
    /\ ret.val[2] = 1
    /\ ret.val[3] = 1

\* what each query returns on an aggregator that holds nothing
EmptyDefault(op) ==
    CASE op = "GetQPS" -> <<0, 1>>
      [] op = "GetStats" -> <<0, 0, 0, <<0, 1>>, 0, 0, 0>>
      [] op = "GetOverallStats" -> <<0, 0, 0, <<0, 1>>>>
      [] op = "GetPreviousWindowStats" -> <<0, 0, 0, 0, 0>>
      [] OTHER -> 0

\* C15: as long as no record call has been made, at whatever time, GetQPS
\* is 0, GetStats is all zeros, GetPreviousWindowStats is the all-zero tuple,
\* and GetOpsLastSecond, GetErrorsLastSecond and GetLastSecondPercentile(p)
\* are 0; and that is what a query called then returns.
C15_EmptyDefaults ==
    (latencyCalls = 0 /\ errorCalls = 0)
        => /\ QPS = <<0, 1>>
           /\ Stats = <<0, 0, 0, <<0, 1>>, 0, 0, 0>>
           /\ OverallStats = <<0, 0, 0, <<0, 1>>>>
           /\ PreviousWindowStats = <<0, 0, 0, 0, 0>>
           /\ OpsLastSecond = 0
           /\ ErrorsLastSecond = 0
           /\ \A p \in Percentiles : LastSecondPercentile(p) = 0
           /\ ret.op # "none" => ret.val = EmptyDefault(ret.op)

\* GetOpsLastSecond has returned a minute after the creation of an
\* aggregator on which no record call was made
C15_Witness ==
    /\ latencyCalls = 0 /\ errorCalls = 0
    /\ now - StartTime >= RetainSeconds
    /\ ret.op = "GetOpsLastSecond"
    /\ ret.val = 0

\* C16: when the collector processes a failure event in a second that is
\* not lastSecond, it stores the non-zero accumulators under lastSecond,
\* resets them, sets lastSecond to the new second and deletes every key more
\* than 60 seconds older than the new second from both per-second maps; so
\* with failure events only, no per-second entry is more than 60 seconds
\* older than the event processed last.
C16_FailureBoundaryStep ==
    /\ [][(pc = "error" /\ pc' = "total" /\ now # lastSecond)
            => /\ perSecondOps' =
                     MapDelete(SavedOps(now), Expired(SavedOps(now), now))
               /\ perSecondErrors' =
                     MapDelete(SavedErrors(now), Expired(SavedErrors(now), now))
               /\ lastSecond' = now
               /\ currentSecondOps' = 0
               /\ currentSecondErrors' = 1]_vars
    /\ [](latencyCalls = 0
            => \A s \in (DOMAIN perSecondOps) \cup (DOMAIN perSecondErrors) :
                    lastSecond - s <= RetainSeconds)

\* C17: every archived histogram holds at least one value and is stored
\* under a key below the current window's start; an entry of the archive is
\* never changed or removed; an entry is added only by a window roll, under
\* the start second of the window that ends and with that window's
\* histogram, and the start second grows at every roll, so that no key is
\* used twice; between rolls the start second stays and the current window's
\* histogram only gains values, and after a roll the current window's
\* histogram is a new one that holds the event's value at most.
C17_WindowArchiveIntegrity ==
    /\ [](\A k \in DOMAIN windowedHistograms :
            /\ TotalCount(windowedHistograms[k]) >= 1
            /\ k < currentWindowStartSecond)
    /\ [][/\ \A k \in DOMAIN windowedHistograms :
                /\ k \in DOMAIN windowedHistograms'
                /\ windowedHistograms'[k] = windowedHistograms[k]
          /\ \A k \in (DOMAIN windowedHistograms') \ (DOMAIN windowedHistograms) :
                /\ pc = "latency"
                /\ k = currentWindowStartSecond
                /\ windowedHistograms'[k] = currentHistogram
                /\ currentWindowStartSecond' > currentWindowStartSecond
          /\ currentWindowStartSecond' >= currentWindowStartSecond
          /\ currentWindowStartSecond' = currentWindowStartSecond
                => \A v \in Recordable : currentHistogram'[v] >= currentHistogram[v]
          /\ currentWindowStartSecond' > currentWindowStartSecond
                => /\ currentWindowStartSecond' = event.Timestamp
                   /\ currentHistogram' = RecordValue(NewHistogram, event.LatencyMicros)
                   /\ TotalCount(currentHistogram) > 0
                        => currentWindowStartSecond \in DOMAIN windowedHistograms']_vars

\* two windows have been archived and a third is being filled
C17_Witness ==
    /\ Cardinality(DOMAIN windowedHistograms) = 2
    /\ TotalCount(currentHistogram) = 1
    /\ currentWindowStartSecond >= RetainSeconds

\* C18: an entry of the per-second maps is never overwritten with another
\* value, and the entry for second s is the number of success events
\* (in perSecondErrors: of failure events) the collector processed with
\* second s, whatever the order in which the events are taken.
C18_SecondFinalizedOnce ==
    /\ [][/\ \A s \in (DOMAIN perSecondOps) \cap (DOMAIN perSecondOps') :
                perSecondOps'[s] = perSecondOps[s]
          /\ \A s \in (DOMAIN perSecondErrors) \cap (DOMAIN perSecondErrors') :
                perSecondErrors'[s] = perSecondErrors[s]]_vars
    /\ [](/\ \A s \in DOMAIN perSecondOps :
                perSecondOps[s] = Attributed(procOps, s)
          /\ \A s \in DOMAIN perSecondErrors :
                perSecondErrors[s] = Attributed(procErrors, s))

RECURSIVE ArchivedCount(_, _)
\* how many times the value v is held by the archived histograms with a key
\* in ks
ArchivedCount(ks, v) ==
    IF ks = {} THEN 0
    ELSE LET k == CHOOSE x \in ks : TRUE
         IN  windowedHistograms[k][v] + ArchivedCount(ks \ {k}, v)

\* C19: whenever the collector is between events, the overall histogram
\* holds SuccessOps values, and it holds each value as many times as the
\* archived windows and the current window hold it together.
C19_HistogramConservation ==
    pc \in {"select", "exited"}
        => /\ TotalCount(Histogram) = SuccessOps
           /\ \A v \in Recordable :
                Histogram[v] =
                    ArchivedCount(DOMAIN windowedHistograms, v) + currentHistogram[v]

\* 1 when the collector holds an event at position p of its body, else 0
Holding(p) == IF pc \in p THEN 1 ELSE 0

\* C20: at every moment the record calls made are the events counted, the
\* events waiting in the mailboxes, the events dropped and the one event the
\* collector may hold, in total and for each mailbox, so that no event is
\* counted twice; and as long as Close is not called, the n-th event
\* enqueued on a mailbox is processed in the end, for every n.
C20_NoEventLostOrDoubled ==
    /\ [](/\ TotalOps + Len(latencyChannel) + Len(errorChannel)
                + latencyDrops + errorDrops + Holding({"latency", "error", "total"})
                = latencyCalls + errorCalls
          /\ SuccessOps + Len(latencyChannel) + latencyDrops + Holding({"latency"})
                = latencyCalls
          /\ FailedOps + Len(errorChannel) + errorDrops + Holding({"error"})
                = errorCalls)
    /\ \A n \in 1 .. MaxCalls :
            /\ (latencyCalls - latencyDrops >= n) ~> (SuccessOps >= n \/ done)
            /\ (errorCalls - errorDrops >= n) ~> (FailedOps >= n \/ done)
            /\ (latencyCalls + errorCalls - latencyDrops - errorDrops >= n)
                    ~> (TotalOps >= n \/ done)

\* without a Close, every call has been made, one event was dropped and the
\* two that were enqueued have been counted
C20_Witness ==
    /\ ~done
    /\ Drained
    /\ latencyCalls + errorCalls = MaxCalls
    /\ latencyDrops + errorDrops = 1
    /\ TotalOps = 2

====
